---- MODULE Spec2Model ----
(***************************************************************************)
(* PawPal+ (pawpal_system.py): the domain records Owner, Pet and Task, and *)
(* the Scheduler that turns an owner's tasks and time budget into a        *)
(* SchedulePlan.                                                           *)
(*                                                                         *)
(* An Owner is a record [available_time_minutes, pets]; a Pet is a record  *)
(* [id, tasks]; a Task is a record with the six fields of the dataclass.   *)
(* Owner.id, Owner.name and Pet.name, species and age are read by no       *)
(* operation modelled here and are left out.  A priority string is a       *)
(* sequence of one-character strings, so that str.lower() is computed      *)
(* character by character.                                                 *)
(***************************************************************************)
EXTENDS Integers, Sequences, FiniteSets, TLC

VARIABLES owner, counters, last

vars == <<owner, counters, last>>

(***************************************************************************)
(* Bounds of the model.                                                    *)
(***************************************************************************)
MaxPets == 2
MaxTasks == 3
MaxId == 2
MaxDuration == 2
MaxTime == 3
MaxIssued == 4

Ids == 1..MaxId
Durations == 1..MaxDuration
Budgets == 0..MaxTime

(***************************************************************************)
(* Priority strings a caller passes: the three documented ones, each of    *)
(* them in another letter case, and an unrecognised one.                   *)
(***************************************************************************)
StrHigh == <<"h", "i", "g", "h">>
StrMedium == <<"m", "e", "d", "i", "u", "m">>
StrLow == <<"l", "o", "w">>
PriorityInputs ==
    { StrHigh, StrMedium, StrLow,
      <<"H", "i", "g", "h">>,
      <<"M", "E", "D", "I", "U", "M">>,
      <<"l", "o", "W">>,
      <<"u", "r", "g", "e", "n", "t">> }

(***************************************************************************)
(* str.lower() on the letters that occur.                                  *)
(***************************************************************************)
LowerChar(c) ==
    CASE c = "H" -> "h"
      [] c = "I" -> "i"
      [] c = "G" -> "g"
      [] c = "M" -> "m"
      [] c = "E" -> "e"
      [] c = "D" -> "d"
      [] c = "U" -> "u"
      [] c = "L" -> "l"
      [] c = "O" -> "o"
      [] c = "W" -> "w"
      [] OTHER -> c

lower(s) == [i \in 1..Len(s) |-> LowerChar(s[i])]

PRIORITY_VALUES == (StrHigh :> 3) @@ (StrMedium :> 2) @@ (StrLow :> 1)

\* A plausible slip: the lookup without the .lower() call.
get_priority_value_nolower(task) ==
    IF task.priority \in DOMAIN PRIORITY_VALUES
    THEN PRIORITY_VALUES[task.priority]
    ELSE 1

get_priority_value(task) ==
    IF lower(task.priority) \in DOMAIN PRIORITY_VALUES
    THEN PRIORITY_VALUES[lower(task.priority)]
    ELSE 1

(***************************************************************************)
(* Owner.get_all_tasks: the pets' task lists concatenated in pet order.    *)
(***************************************************************************)
RECURSIVE ExtendAll(_)
ExtendAll(pets) ==
    IF pets = <<>> THEN <<>>
    ELSE Head(pets).tasks \o ExtendAll(Tail(pets))

get_all_tasks(o) == ExtendAll(o.pets)

\* A plausible slip: all_tasks starts as the first pet's own list, not a new
\* one, so extend() grows that pet's list.
pets_after_collect_aliased(pets) ==
    IF pets = <<>> THEN pets
    ELSE [pets EXCEPT ![1].tasks = @ \o ExtendAll(pets)]

\* The owner's pets as get_all_tasks leaves them: all_tasks is a new list and
\* extend() changes only that list; sorted() and the fitting pass build new
\* lists too.
pets_after_collect(pets) == pets

RECURSIVE sum_durations(_)
sum_durations(tasks) ==
    IF tasks = <<>> THEN 0
    ELSE Head(tasks).duration_minutes + sum_durations(Tail(tasks))

(***************************************************************************)
(* Scheduler._sort_tasks_by_priority: sorted(..., reverse=True) is a       *)
(* stable sort, descending by key: each task goes behind every task whose  *)
(* key is at least its own.                                                *)
(***************************************************************************)
RECURSIVE InsertUnstable(_, _)
InsertUnstable(sorted, task) ==
    IF sorted = <<>> THEN <<task>>
    ELSE IF get_priority_value(Head(sorted)) > get_priority_value(task)
         THEN <<Head(sorted)>> \o InsertUnstable(Tail(sorted), task)
         ELSE <<task>> \o sorted

RECURSIVE InsertByPriority(_, _)
InsertByPriority(sorted, task) ==
    IF sorted = <<>> THEN <<task>>
    ELSE IF get_priority_value(Head(sorted)) >= get_priority_value(task)
         THEN <<Head(sorted)>> \o InsertByPriority(Tail(sorted), task)
         ELSE <<task>> \o sorted

RECURSIVE SortFrom(_, _)
SortFrom(sorted, tasks) ==
    IF tasks = <<>> THEN sorted
    ELSE SortFrom(InsertByPriority(sorted, Head(tasks)), Tail(tasks))

_sort_tasks_by_priority(tasks) == SortFrom(<<>>, tasks)

(***************************************************************************)
(* Scheduler._fit_tasks_to_time: one pass over the tasks with the          *)
(* remaining-time counter; FitLoop is the for loop, acc its locals.        *)
(***************************************************************************)
FitStart(available_time) ==
    [scheduled |-> <<>>, skipped |-> <<>>, time_remaining |-> available_time]

\* A plausible slip: break out of the loop at the first task that does not fit.
RECURSIVE FitLoopBreak(_, _)
FitLoopBreak(acc, tasks) ==
    IF tasks = <<>> THEN acc
    ELSE LET task == Head(tasks) IN
         IF task.duration_minutes <= acc.time_remaining
         THEN FitLoopBreak([acc EXCEPT
                              !.scheduled = Append(@, task),
                              !.time_remaining = @ - task.duration_minutes],
                           Tail(tasks))
         ELSE [acc EXCEPT !.skipped = Append(@, task)]

\* A plausible slip: the counter is not decreased when a task is scheduled.
RECURSIVE FitLoopNoDecrement(_, _)
FitLoopNoDecrement(acc, tasks) ==
    IF tasks = <<>> THEN acc
    ELSE LET task == Head(tasks) IN
         IF task.duration_minutes <= acc.time_remaining
         THEN FitLoopNoDecrement([acc EXCEPT !.scheduled = Append(@, task)],
                                 Tail(tasks))
         ELSE FitLoopNoDecrement([acc EXCEPT !.skipped = Append(@, task)],
                                 Tail(tasks))

\* A plausible slip: < in place of <=.
RECURSIVE FitLoopStrict(_, _)
FitLoopStrict(acc, tasks) ==
    IF tasks = <<>> THEN acc
    ELSE LET task == Head(tasks) IN
         IF task.duration_minutes < acc.time_remaining
         THEN FitLoopStrict([acc EXCEPT
                               !.scheduled = Append(@, task),
                               !.time_remaining = @ - task.duration_minutes],
                            Tail(tasks))
         ELSE FitLoopStrict([acc EXCEPT !.skipped = Append(@, task)],
                            Tail(tasks))

\* A plausible slip: the comparison is off by one minute.
RECURSIVE FitLoopOffByOne(_, _)
FitLoopOffByOne(acc, tasks) ==
    IF tasks = <<>> THEN acc
    ELSE LET task == Head(tasks) IN
         IF task.duration_minutes <= acc.time_remaining + 1
         THEN FitLoopOffByOne([acc EXCEPT
                                 !.scheduled = Append(@, task),
                                 !.time_remaining = @ - task.duration_minutes],
                              Tail(tasks))
         ELSE FitLoopOffByOne([acc EXCEPT !.skipped = Append(@, task)],
                              Tail(tasks))

\* A plausible slip: the counter is decreased for a skipped task as well.
RECURSIVE FitLoopSkipDecrement(_, _)
FitLoopSkipDecrement(acc, tasks) ==
    IF tasks = <<>> THEN acc
    ELSE LET task == Head(tasks) IN
         IF task.duration_minutes <= acc.time_remaining
         THEN FitLoopSkipDecrement(
                  [acc EXCEPT !.scheduled = Append(@, task),
                              !.time_remaining = @ - task.duration_minutes],
                  Tail(tasks))
         ELSE FitLoopSkipDecrement(
                  [acc EXCEPT !.skipped = Append(@, task),
                              !.time_remaining = @ - task.duration_minutes],
                  Tail(tasks))

RECURSIVE FitLoop(_, _)
FitLoop(acc, tasks) ==
    IF tasks = <<>> THEN acc
    ELSE LET task == Head(tasks) IN
         IF task.duration_minutes <= acc.time_remaining
         THEN FitLoop([acc EXCEPT
                         !.scheduled = Append(@, task),
                         !.time_remaining = @ - task.duration_minutes],
                      Tail(tasks))
         ELSE FitLoop([acc EXCEPT !.skipped = Append(@, task)], Tail(tasks))

_fit_tasks_to_time(tasks, available_time) ==
    LET end == FitLoop(FitStart(available_time), tasks)
    IN  <<end.scheduled, end.skipped>>

(***************************************************************************)
(* Scheduler._generate_explanation.  An f-string is its template and the   *)
(* values formatted into it.                                               *)
(***************************************************************************)
MsgNoTasks == "No tasks to schedule today. Enjoy your free time!"
MsgAllFit ==
    "All {len(scheduled)} tasks fit! Used {time_used}/{time_available} minutes. Tasks were prioritized by importance (high > medium > low)."
MsgSomeSkipped ==
    "Scheduled {len(scheduled)} high-priority tasks ({time_used} min). Skipped {len(skipped)} lower-priority tasks due to time constraints. Consider rescheduling skipped tasks for tomorrow or reducing task durations."

\* A plausible slip: the first test looks at the scheduled list only.
_explain_scheduled_only(scheduled, skipped, time_used, time_available) ==
    IF scheduled = <<>>
    THEN [text |-> MsgNoTasks, args |-> <<>>]
    ELSE IF skipped = <<>>
    THEN [text |-> MsgAllFit,
          args |-> <<Len(scheduled), time_used, time_available>>]
    ELSE [text |-> MsgSomeSkipped,
          args |-> <<Len(scheduled), time_used, Len(skipped)>>]

_generate_explanation(scheduled, skipped, time_used, time_available) ==
    IF scheduled = <<>> /\ skipped = <<>>
    THEN [text |-> MsgNoTasks, args |-> <<>>]
    ELSE IF skipped = <<>>
    THEN [text |-> MsgAllFit,
          args |-> <<Len(scheduled), time_used, time_available>>]
    ELSE [text |-> MsgSomeSkipped,
          args |-> <<Len(scheduled), time_used, Len(skipped)>>]

(***************************************************************************)
(* Scheduler.generate_plan                                                 *)
(***************************************************************************)
generate_plan(o) ==
    LET all_tasks == get_all_tasks(o)
        sorted_tasks == _sort_tasks_by_priority(all_tasks)
        fit == _fit_tasks_to_time(sorted_tasks, o.available_time_minutes)
        scheduled == fit[1]
        skipped == fit[2]
        time_used == sum_durations(scheduled)
        explanation == _generate_explanation(scheduled, skipped, time_used,
                                             o.available_time_minutes)
    IN  [scheduled_tasks |-> scheduled,
         skipped_tasks |-> skipped,
         explanation |-> explanation,
         time_used |-> time_used,
         time_available |-> o.available_time_minutes]

(***************************************************************************)
(* The state: the owner's object graph, and the operation called last      *)
(* with its arguments and what it returned or raised.                      *)
(***************************************************************************)
NoCall == [op |-> "none"]

\* IDGenerator._counters as the class is loaded.
InitCounters == [owner |-> 0, pet |-> 0, task |-> 0]

Init ==
    /\ \E t \in Budgets : owner = [available_time_minutes |-> t, pets |-> <<>>]
    /\ counters = InitCounters
    /\ last = NoCall

(***************************************************************************)
(* The Task dataclass: its fields and its one method.  A caller builds a   *)
(* task from an id, a duration, a priority string and a pet id.            *)
(***************************************************************************)
Task(id, duration_minutes, priority, pet_id) ==
    [id |-> id, name |-> "Morning walk", category |-> "Walk",
     duration_minutes |-> duration_minutes, priority |-> priority,
     pet_id |-> pet_id]

TaskMethods == {"get_priority_value"}

\* The tasks the caller of Spec passes.
TaskInputs ==
    { Task(id, d, p, pid) :
        id \in Ids, d \in Durations, p \in {StrHigh, StrLow}, pid \in Ids }

\* Attribute lookup on a task object: a field, a method, or AttributeError.
task_getattr(task, attr) ==
    IF attr \in DOMAIN task \cup TaskMethods THEN "none" ELSE "AttributeError"

\* Owner.add_pet: the list of pets afterwards.
add_pet(pets, pet) == Append(pets, pet)

\* A newly constructed Pet has no tasks.
Pet(id) == [id |-> id, tasks |-> <<>>]

\* owner.add_pet(Pet(id=id, ...)) with an id the caller chooses.
AddPet(id) ==
    /\ Len(owner.pets) < MaxPets
    /\ owner' = [owner EXCEPT !.pets = add_pet(@, Pet(id))]
    /\ last' = [op |-> "add_pet", pet_id |-> id]
    /\ UNCHANGED counters

\* A plausible slip: remove only the first pet with the id.
RECURSIVE remove_first_pet(_, _)
remove_first_pet(pets, pet_id) ==
    IF pets = <<>> THEN <<>>
    ELSE IF Head(pets).id = pet_id THEN Tail(pets)
    ELSE <<Head(pets)>> \o remove_first_pet(Tail(pets), pet_id)

remove_pet(pets, pet_id) == SelectSeq(pets, LAMBDA pet : pet.id # pet_id)

RemovePet(id) ==
    /\ owner' = [owner EXCEPT !.pets = remove_pet(@, id)]
    /\ last' = [op |-> "remove_pet", pet_id |-> id,
                removed |-> Len(owner.pets) - Len(owner'.pets)]
    /\ UNCHANGED counters

\* A plausible slip: add_task without the pet_id validation.
add_task_unchecked(pet, task) ==
    [exc |-> "none", pet |-> [pet EXCEPT !.tasks = Append(@, task)]]

\* Pet.add_task: the exception raised ("none" for a normal return) and the
\* pet afterwards.
add_task(pet, task) ==
    IF task.pet_id # pet.id
    THEN [exc |-> "ValueError", pet |-> pet]
    ELSE [exc |-> "none", pet |-> [pet EXCEPT !.tasks = Append(@, task)]]

\* owner.pets[i].add_task(task)
AddTask(i, task) ==
    LET r == add_task(owner.pets[i], task) IN
    /\ Len(get_all_tasks(owner)) < MaxTasks
    /\ owner' = [owner EXCEPT !.pets[i] = r.pet]
    /\ last' = [op |-> "add_task", pet |-> i, task |-> task, exc |-> r.exc]
    /\ UNCHANGED counters

remove_task(tasks, task_id) == SelectSeq(tasks, LAMBDA task : task.id # task_id)

\* owner.pets[i].remove_task(task_id)
RemoveTask(i, task_id) ==
    /\ owner' = [owner EXCEPT !.pets[i].tasks = remove_task(@, task_id)]
    /\ last' = [op |-> "remove_task", pet |-> i, task_id |-> task_id,
                removed |-> Len(owner.pets[i].tasks) - Len(owner'.pets[i].tasks)]
    /\ UNCHANGED counters

\* scheduler.generate_plan(owner); the plan is what the call returns.
GeneratePlan ==
    /\ last' = [op |-> "generate_plan", plan |-> generate_plan(owner)]
    /\ owner' = [owner EXCEPT !.pets = pets_after_collect(@)]
    /\ UNCHANGED counters

\* task.is_completed read on a task (test_task_completion, line 22).
ReadIsCompleted(i, j) ==
    /\ last' = [op |-> "is_completed",
                exc |-> task_getattr(owner.pets[i].tasks[j], "is_completed")]
    /\ UNCHANGED <<owner, counters>>

\* task.mark_complete() called on a task (main.py, line 155).
MarkComplete(i, j) ==
    /\ last' = [op |-> "mark_complete",
                exc |-> task_getattr(owner.pets[i].tasks[j], "mark_complete")]
    /\ UNCHANGED <<owner, counters>>

(***************************************************************************)
(* IDGenerator.next_id: the counters afterwards; the id returned is the    *)
(* new value of the counter.                                               *)
(***************************************************************************)
\* A plausible slip: one counter shared by the three categories.
next_id_shared(c, entity_type) == [e \in DOMAIN c |-> c[e] + 1]

next_id(c, entity_type) == [c EXCEPT ![entity_type] = @ + 1]

\* IDGenerator.reset: the counters afterwards.
reset(c) == [owner |-> 0, pet |-> 0, task |-> 0]

EntityTypes == {"owner", "pet", "task"}

\* The ids next_id has returned for each category since the last reset, as
\* the caller has seen them.
IssuedSoFar ==
    IF last.op \in {"next_id", "reset"} THEN last.issued
    ELSE [e \in EntityTypes |-> <<>>]

\* IDGenerator.next_id(entity_type)
NextId(entity_type) ==
    LET c == next_id(counters, entity_type) IN
    /\ counters[entity_type] < MaxIssued
    /\ counters' = c
    /\ last' = [op |-> "next_id", entity_type |-> entity_type,
                id |-> c[entity_type],
                issued |-> [IssuedSoFar EXCEPT
                              ![entity_type] = Append(@, c[entity_type])]]
    /\ UNCHANGED owner

\* IDGenerator.reset()
Reset ==
    /\ counters' = reset(counters)
    /\ last' = [op |-> "reset", issued |-> [e \in EntityTypes |-> <<>>]]
    /\ UNCHANGED owner

\* pet = Pet(id=IDGenerator.next_id("pet"), ...); owner.add_pet(pet)
CreatePet ==
    LET c == next_id(counters, "pet") IN
    /\ Len(owner.pets) < MaxPets
    /\ counters' = c
    /\ owner' = [owner EXCEPT !.pets = add_pet(@, Pet(c.pet))]
    /\ last' = [op |-> "add_pet", pet_id |-> c.pet]

\* task = Task(id=IDGenerator.next_id("task"), ..., pet_id=pet.id);
\* pet.add_task(task)
CreateTask(i, duration_minutes, priority) ==
    LET c == next_id(counters, "task")
        task == Task(c.task, duration_minutes, priority, owner.pets[i].id)
        r == add_task(owner.pets[i], task)
    IN
    /\ Len(get_all_tasks(owner)) < MaxTasks
    /\ counters' = c
    /\ owner' = [owner EXCEPT !.pets[i] = r.pet]
    /\ last' = [op |-> "add_task", pet |-> i, task |-> task, exc |-> r.exc]

PetIndexes == 1..Len(owner.pets)

(***************************************************************************)
(* Spec: a caller of the domain records that supplies ids itself (nothing  *)
(* checks their uniqueness).                                               *)
(***************************************************************************)
Next ==
    \/ \E id \in Ids : AddPet(id)
    \/ \E id \in Ids : RemovePet(id)
    \/ \E i \in PetIndexes, task \in TaskInputs : AddTask(i, task)
    \/ \E i \in PetIndexes, id \in Ids : RemoveTask(i, id)
    \/ \E i \in PetIndexes :
         \E j \in 1..Len(owner.pets[i].tasks) : ReadIsCompleted(i, j)
    \/ \E i \in PetIndexes :
         \E j \in 1..Len(owner.pets[i].tasks) : MarkComplete(i, j)

Spec == Init /\ [][Next]_vars

(***************************************************************************)
(* SpecPlan: a caller that builds the owner's pets and tasks with ids from *)
(* IDGenerator, as main.py does, and asks for the plan.                    *)
(***************************************************************************)
NextPlan ==
    \/ CreatePet
    \/ \E i \in PetIndexes, d \in Durations, p \in PriorityInputs :
         CreateTask(i, d, p)
    \/ GeneratePlan

SpecPlan == Init /\ [][NextPlan]_vars

(***************************************************************************)
(* SpecIds: a caller of IDGenerator alone, asking for ids of the three     *)
(* categories in any interleaving and resetting at any time.               *)
(***************************************************************************)
NextIds ==
    \/ \E e \in EntityTypes : NextId(e)
    \/ Reset

SpecIds == Init /\ [][NextIds]_vars

(***************************************************************************)
(* Vocabulary of the properties.                                           *)
(***************************************************************************)
PlanReturned == last.op = "generate_plan"

Range(seq) == {seq[i] : i \in DOMAIN seq}

Count(seq, x) == Cardinality({i \in DOMAIN seq : seq[i] = x})

\* sub is seq with some entries left out, the others in their order.
RECURSIVE IsSubSeq(_, _)
IsSubSeq(sub, seq) ==
    IF sub = <<>> THEN TRUE
    ELSE IF seq = <<>> THEN FALSE
    ELSE IF Head(sub) = Head(seq) THEN IsSubSeq(Tail(sub), Tail(seq))
    ELSE IsSubSeq(sub, Tail(seq))

\* The total duration of the first n tasks of seq.
RECURSIVE DurationUpTo(_, _)
DurationUpTo(seq, n) ==
    IF n = 0 THEN 0 ELSE DurationUpTo(seq, n - 1) + seq[n].duration_minutes

TotalDuration(seq) == DurationUpTo(seq, Len(seq))

\* The tasks of the owner in collected order, and in priority-sorted order.
Collected == get_all_tasks(owner)
Sorted == _sort_tasks_by_priority(Collected)

\* C1: the plan returned by generate_plan partitions the owner's tasks: every
\* task occurs in scheduled_tasks and skipped_tasks together exactly as often
\* as in get_all_tasks() (once, ids being unique), never in both lists, and
\* neither list holds a task that is not an input.
C1_PlanPartitionsTasks ==
    PlanReturned =>
        LET plan == last.plan IN
        /\ \A t \in Range(Collected) \cup Range(plan.scheduled_tasks)
                                     \cup Range(plan.skipped_tasks) :
             Count(plan.scheduled_tasks, t) + Count(plan.skipped_tasks, t)
                 = Count(Collected, t)
        /\ Range(plan.scheduled_tasks) \cap Range(plan.skipped_tasks) = {}
        /\ Len(plan.scheduled_tasks) + Len(plan.skipped_tasks) = Len(Collected)

C1_Witness ==
    /\ PlanReturned
    /\ Len(owner.pets) = 2
    /\ \A i \in 1..2 : owner.pets[i].tasks # <<>>
    /\ last.plan.scheduled_tasks # <<>>
    /\ Len(last.plan.skipped_tasks) >= 2

\* C2: time_used is the total duration of the scheduled tasks, is the budget
\* minus the remaining-time counter at the end of the fitting pass, and never
\* exceeds the budget.
C2_TimeUsed ==
    PlanReturned =>
        LET plan == last.plan
            end == FitLoop(FitStart(owner.available_time_minutes), Sorted)
        IN
        /\ plan.time_used = TotalDuration(plan.scheduled_tasks)
        /\ plan.time_used = owner.available_time_minutes - end.time_remaining
        /\ plan.time_used <= owner.available_time_minutes

C2_Witness ==
    /\ PlanReturned
    /\ Len(last.plan.scheduled_tasks) >= 2
    /\ last.plan.skipped_tasks # <<>>
    /\ last.plan.time_used < owner.available_time_minutes

\* C3 as stated: the scheduled tasks are a prefix of the priority-sorted
\* list (once a task is skipped, no later task is scheduled).
C3_ScheduledIsPrefix ==
    PlanReturned =>
        LET scheduled == last.plan.scheduled_tasks IN
        scheduled = SubSeq(Sorted, 1, Len(scheduled))

\* The length of the longest prefix of seq whose total duration is at most
\* the budget.
FittingPrefix(seq, budget) ==
    CHOOSE k \in 0..Len(seq) :
        /\ DurationUpTo(seq, k) <= budget
        /\ k < Len(seq) => DurationUpTo(seq, k + 1) > budget

\* C3 amended: the scheduled tasks are a subsequence, in order, of the
\* priority-sorted list and begin with its longest prefix that fits the
\* budget; the first task after that prefix is the first skipped task, and a
\* task scheduled after it (the pass goes on after a skip) is strictly
\* shorter than it.
C3_ScheduledAfterSkip ==
    PlanReturned =>
        LET scheduled == last.plan.scheduled_tasks
            skipped == last.plan.skipped_tasks
            k == FittingPrefix(Sorted, owner.available_time_minutes)
        IN
        /\ IsSubSeq(scheduled, Sorted)
        /\ Len(scheduled) >= k
        /\ SubSeq(scheduled, 1, k) = SubSeq(Sorted, 1, k)
        /\ k < Len(Sorted) =>
             /\ skipped # <<>>
             /\ skipped[1] = Sorted[k + 1]
             /\ \A i \in (k + 1)..Len(scheduled) :
                  scheduled[i].duration_minutes < skipped[1].duration_minutes

\* A task of lower rank is scheduled although a task of higher rank, earlier
\* in sorted order, was skipped.
C3_Witness ==
    /\ PlanReturned
    /\ last.plan.skipped_tasks # <<>>
    /\ \E i \in DOMAIN last.plan.scheduled_tasks :
         get_priority_value(last.plan.scheduled_tasks[i])
             < get_priority_value(last.plan.skipped_tasks[1])

\* The position of task t in seq (tasks carry unique ids in SpecPlan).
Pos(seq, t) == CHOOSE i \in DOMAIN seq : seq[i] = t

NonIncreasingRank(seq) ==
    \A i, j \in DOMAIN seq :
        i < j => get_priority_value(seq[i]) >= get_priority_value(seq[j])

KeepsCollectedOrder(seq) ==
    \A i, j \in DOMAIN Collected :
        ( /\ i < j
          /\ get_priority_value(Collected[i]) = get_priority_value(Collected[j])
          /\ Collected[i] \in Range(seq)
          /\ Collected[j] \in Range(seq) )
        => Pos(seq, Collected[i]) < Pos(seq, Collected[j])

\* C4: stability: two tasks of equal rank that end up in the same output
\* list keep their collected order (pet order, then task order) there, and
\* each output list is in non-increasing rank.
C4_Stability ==
    PlanReturned =>
        /\ KeepsCollectedOrder(last.plan.scheduled_tasks)
        /\ KeepsCollectedOrder(last.plan.skipped_tasks)
        /\ NonIncreasingRank(last.plan.scheduled_tasks)
        /\ NonIncreasingRank(last.plan.skipped_tasks)

\* Two tasks of equal rank, of different pets, are scheduled, and a task of
\* higher rank that was collected after both precedes them.
C4_Witness ==
    /\ PlanReturned
    /\ Len(owner.pets) = 2
    /\ Len(owner.pets[1].tasks) = 1
    /\ Len(owner.pets[2].tasks) = 2
    /\ LET a == owner.pets[1].tasks[1]
           b == owner.pets[2].tasks[1]
           c == owner.pets[2].tasks[2]
       IN  /\ get_priority_value(a) = get_priority_value(b)
           /\ get_priority_value(c) > get_priority_value(a)
           /\ last.plan.scheduled_tasks = <<c, a, b>>

\* C5: add_task with a task of another pet raises ValueError and changes
\* nothing; with a matching pet_id it appends the task at the end of that
\* pet's tasks (one more task, the rest of the owner as before).  So every
\* task of every pet carries the id of its pet.
AddTaskContract ==
    last'.op = "add_task" =>
        LET i == last'.pet
            task == last'.task
            pet == owner.pets[i]
        IN  IF task.pet_id # pet.id
            THEN last'.exc = "ValueError" /\ owner' = owner
            ELSE /\ last'.exc = "none"
                 /\ owner'.pets[i].tasks = pet.tasks \o <<task>>
                 /\ Len(owner'.pets[i].tasks) = Len(pet.tasks) + 1
                 /\ owner' = [owner EXCEPT !.pets[i].tasks = owner'.pets[i].tasks]

TasksBelongToTheirPet ==
    \A i \in DOMAIN owner.pets :
        \A j \in DOMAIN owner.pets[i].tasks :
            owner.pets[i].tasks[j].pet_id = owner.pets[i].id

C5_AddTaskValidates == [][AddTaskContract /\ TasksBelongToTheirPet']_vars

\* A task of another pet was rejected by a pet that already has a task.
C5_Witness ==
    /\ last.op = "add_task"
    /\ last.exc = "ValueError"
    /\ last.task.pet_id # owner.pets[last.pet].id
    /\ owner.pets[last.pet].tasks # <<>>

\* seq without its first entry whose id is the given one.
RECURSIVE RemoveFirstWithId(_, _)
RemoveFirstWithId(seq, id) ==
    IF seq = <<>> THEN <<>>
    ELSE IF Head(seq).id = id THEN Tail(seq)
    ELSE <<Head(seq)>> \o RemoveFirstWithId(Tail(seq), id)

CountId(seq, id) == Cardinality({k \in DOMAIN seq : seq[k].id = id})

\* C6 as stated: remove_pet and remove_task remove the first entry with the
\* id and only that one; a later entry with the same id stays.
C6_RemovesFirstOnly ==
    [][ /\ last'.op = "remove_pet" =>
             owner'.pets = RemoveFirstWithId(owner.pets, last'.pet_id)
        /\ last'.op = "remove_task" =>
             owner'.pets[last'.pet].tasks =
                 RemoveFirstWithId(owner.pets[last'.pet].tasks, last'.task_id)
      ]_vars

\* after is before without every entry that has the id, the other entries
\* in their order.
RemovedEvery(before, after, id) ==
    /\ IsSubSeq(after, before)
    /\ \A k \in DOMAIN after : after[k].id # id
    /\ Len(after) = Len(before) - CountId(before, id)
    /\ CountId(before, id) = 0 => after = before

\* C6 amended: remove_pet and remove_task remove every entry with the id
\* (not only the first), keep all other entries in their relative order, and
\* leave the collection as it was when no entry has the id.
C6_RemovesEveryMatch ==
    [][ /\ last'.op = "remove_pet" =>
             /\ RemovedEvery(owner.pets, owner'.pets, last'.pet_id)
             /\ owner' = [owner EXCEPT !.pets = owner'.pets]
        /\ last'.op = "remove_task" =>
             /\ RemovedEvery(owner.pets[last'.pet].tasks,
                             owner'.pets[last'.pet].tasks, last'.task_id)
             /\ owner' = [owner EXCEPT !.pets[last'.pet].tasks =
                                           owner'.pets[last'.pet].tasks]
      ]_vars

\* remove_task took two tasks with the same id out of a pet and left a third.
C6_Witness ==
    /\ last.op = "remove_task"
    /\ last.removed = 2
    /\ Len(owner.pets[last.pet].tasks) = 1

\* C7: a task has a completion flag is_completed, false when the task is
\* created, and true after mark_complete() (which raises nothing).
C7_CompletionFlag ==
    /\ \A t \in Range(Collected) :
         "is_completed" \in DOMAIN t /\ t.is_completed \in BOOLEAN
    /\ last.op = "is_completed" => last.exc = "none"
    /\ last.op = "mark_complete" => last.exc = "none"

\* str.upper() on the letters of the three priority words.
UpperChar(c) ==
    CASE c = "h" -> "H"
      [] c = "i" -> "I"
      [] c = "g" -> "G"
      [] c = "m" -> "M"
      [] c = "e" -> "E"
      [] c = "d" -> "D"
      [] c = "u" -> "U"
      [] c = "l" -> "L"
      [] c = "o" -> "O"
      [] c = "w" -> "W"
      [] OTHER -> c

\* s is word up to the case of its letters.
SameIgnoringCase(s, word) ==
    /\ Len(s) = Len(word)
    /\ \A k \in DOMAIN s : s[k] \in {word[k], UpperChar(word[k])}

Recognized(priority) ==
    \E word \in {StrHigh, StrMedium, StrLow} : SameIgnoringCase(priority, word)

ExpectedRank(priority) ==
    IF SameIgnoringCase(priority, StrHigh) THEN 3
    ELSE IF SameIgnoringCase(priority, StrMedium) THEN 2
    ELSE 1

\* The owner with every unrecognized priority replaced by "low".
UnrecognizedAsLow(o) ==
    [o EXCEPT !.pets =
        [i \in DOMAIN o.pets |->
            [o.pets[i] EXCEPT !.tasks =
                [j \in DOMAIN o.pets[i].tasks |->
                    IF Recognized(o.pets[i].tasks[j].priority)
                    THEN o.pets[i].tasks[j]
                    ELSE [o.pets[i].tasks[j] EXCEPT !.priority = StrLow]]]]]

TaskIds(seq) == [k \in DOMAIN seq |-> seq[k].id]

\* C8: get_priority_value gives 3, 2, 1 for high, medium, low in any letter
\* case and 1 for every other string; and the plan schedules and skips the
\* same tasks in the same order as if every unrecognized priority were "low".
C8_PriorityValueTotal ==
    /\ \A t \in Range(Collected) :
         get_priority_value(t) = ExpectedRank(t.priority)
    /\ PlanReturned =>
         LET asLow == generate_plan(UnrecognizedAsLow(owner)) IN
         /\ TaskIds(last.plan.scheduled_tasks) = TaskIds(asLow.scheduled_tasks)
         /\ TaskIds(last.plan.skipped_tasks) = TaskIds(asLow.skipped_tasks)
         /\ last.plan.time_used = asLow.time_used

\* A plan for an unrecognized priority collected before a "low", a
\* capitalised "High" collected last.
C8_Witness ==
    /\ PlanReturned
    /\ Len(Collected) = 3
    /\ ~Recognized(Collected[1].priority)
    /\ Collected[2].priority = StrLow
    /\ Collected[3].priority = <<"H", "i", "g", "h">>
    /\ TaskIds(Sorted) = <<Collected[3].id, Collected[1].id, Collected[2].id>>

\* C9: with a budget of 0 and at least one task, nothing is scheduled, every
\* task is skipped and time_used is 0.
C9_ZeroBudget ==
    ( /\ PlanReturned
      /\ owner.available_time_minutes = 0
      /\ Collected # <<>> )
    => /\ last.plan.scheduled_tasks = <<>>
       /\ Len(last.plan.skipped_tasks) = Len(Collected)
       /\ \A t \in Range(Collected) :
            Count(last.plan.skipped_tasks, t) = Count(Collected, t)
       /\ last.plan.time_used = 0

C9_Witness ==
    /\ PlanReturned
    /\ owner.available_time_minutes = 0
    /\ Len(Collected) = 3
    /\ Len(last.plan.skipped_tasks) = 3

\* C10: the explanation is the "nothing to do" message exactly when the
\* owner has no task (both lists are then empty), the "all tasks fit"
\* message exactly when there are tasks and none was skipped, and otherwise
\* the message with the scheduled count, the time used and the skipped count.
C10_ExplanationTable ==
    PlanReturned =>
        LET plan == last.plan IN
        /\ plan.explanation.text = MsgNoTasks <=> Collected = <<>>
        /\ Collected = <<>> =>
             plan.scheduled_tasks = <<>> /\ plan.skipped_tasks = <<>>
        /\ plan.explanation.text = MsgAllFit <=>
             (Collected # <<>> /\ plan.skipped_tasks = <<>>)
        /\ plan.explanation.text = MsgAllFit =>
             plan.explanation.args =
                 <<Len(Collected), TotalDuration(Collected),
                   owner.available_time_minutes>>
        /\ plan.skipped_tasks # <<>> =>
             /\ plan.explanation.text = MsgSomeSkipped
             /\ plan.explanation.args =
                  <<Len(plan.scheduled_tasks),
                    TotalDuration(plan.scheduled_tasks),
                    Len(plan.skipped_tasks)>>

\* Tasks exist and all of them were skipped.
C10_Witness ==
    /\ PlanReturned
    /\ Collected # <<>>
    /\ last.plan.scheduled_tasks = <<>>
    /\ last.plan.explanation.text = MsgSomeSkipped

C12_IdsPerCategory ==
    [][ /\ last'.op = "next_id" =>
             /\ \A e \in EntityTypes :
                  \A k \in DOMAIN last'.issued[e] : last'.issued[e][k] = k
             /\ last'.id = Len(last'.issued[last'.entity_type])
             /\ \A e \in EntityTypes \ {last'.entity_type} :
                  counters'[e] = counters[e]
        /\ last'.op = "reset" =>
             \A e \in EntityTypes : counters'[e] = 0
        /\ (last.op = "reset" /\ last'.op = "next_id") => last'.id = 1
      ]_vars

\* Ids of the three categories were handed out interleaved: the third task
\* id after two pet ids and one owner id.
C12_Witness ==
    /\ last.op = "next_id"
    /\ last.entity_type = "task"
    /\ last.issued = [owner |-> <<1>>, pet |-> <<1, 2>>, task |-> <<1, 2, 3>>]
    /\ counters = [owner |-> 1, pet |-> 2, task |-> 3]

\* The locals of the fitting pass after its first n iterations over the
\* priority-sorted tasks.
AfterIterations(n) ==
    FitLoop(FitStart(owner.available_time_minutes), SubSeq(Sorted, 1, n))

\* C13: the fitting pass is one greedy pass with a counter that starts at
\* the budget: the n-th sorted task is appended to scheduled exactly when
\* its duration is at most the counter at that moment, and the counter then
\* drops by that duration; otherwise it is appended to skipped and the
\* counter stays.  Earlier decisions stay as they were, the counter is never
\* negative, and the plan holds the lists of the last iteration.
C13_GreedyPass ==
    PlanReturned =>
        /\ AfterIterations(0) = FitStart(owner.available_time_minutes)
        /\ \A n \in 1..Len(Sorted) :
             LET before == AfterIterations(n - 1)
                 after == AfterIterations(n)
                 task == Sorted[n]
             IN  /\ before.time_remaining >= 0
                 /\ after.time_remaining >= 0
                 /\ IF task.duration_minutes <= before.time_remaining
                    THEN /\ after.scheduled = before.scheduled \o <<task>>
                         /\ after.skipped = before.skipped
                         /\ after.time_remaining =
                              before.time_remaining - task.duration_minutes
                    ELSE /\ after.scheduled = before.scheduled
                         /\ after.skipped = before.skipped \o <<task>>
                         /\ after.time_remaining = before.time_remaining
        /\ last.plan.scheduled_tasks = AfterIterations(Len(Sorted)).scheduled
        /\ last.plan.skipped_tasks = AfterIterations(Len(Sorted)).skipped

\* As in scenario 1: two tasks of the highest rank use the budget up and a
\* third task of lower rank is skipped with the counter at 0.
C13_Witness ==
    /\ PlanReturned
    /\ Len(Sorted) = 3
    /\ Len(last.plan.scheduled_tasks) = 2
    /\ last.plan.skipped_tasks = <<Sorted[3]>>
    /\ get_priority_value(Sorted[2]) > get_priority_value(Sorted[3])
    /\ AfterIterations(2).time_remaining = 0
    /\ last.plan.time_used = owner.available_time_minutes

\* C14: with positive durations and a budget of at least 0, no skipped task
\* fits the time left over: each has a duration greater than
\* time_available - time_used.
C14_SkippedDoNotFit ==
    ( /\ PlanReturned
      /\ owner.available_time_minutes >= 0
      /\ \A t \in Range(Collected) : t.duration_minutes > 0 )
    => \A i \in DOMAIN last.plan.skipped_tasks :
         last.plan.skipped_tasks[i].duration_minutes
             > last.plan.time_available - last.plan.time_used

\* Tasks were scheduled, time is left over, and a task was skipped.
C14_Witness ==
    /\ PlanReturned
    /\ last.plan.time_available - last.plan.time_used > 0
    /\ last.plan.skipped_tasks # <<>>
    /\ last.plan.scheduled_tasks # <<>>

====
